---- MODULE Spec2Model ----
(***************************************************************************)
(* Model of monitor.py, the STUDEFI availability monitor.                  *)
(*                                                                         *)
(* One run of main() is a sequence of steps over the process state         *)
(* (available_codes, previous_state, current_state, all_results,           *)
(* new_availabilities) and two things that outlive the process: the        *)
(* snapshot file STATE_FILE and the messages handed to Telegram.  Runs     *)
(* follow each other (the script is started periodically), and a run can   *)
(* be killed from outside at any step.                                     *)
(***************************************************************************)
EXTENDS Integers, Sequences, FiniteSets, TLC

\* ------------------------------------------------------------------------
\* Bounds and program constants
\* ------------------------------------------------------------------------

\* Number of registry entries the model keeps (the source lists 31).
NumRes == 2

\* fetch_with_retry(session, url, max_attempts=3)
max_attempts == 3

\* The head of RESIDENCES, in source order.
RESIDENCES_HEAD ==
    << [code |-> "807G", nom |-> "Algo"],
       [code |-> "788G", nom |-> "Joliot Curie"],
       [code |-> "802G", nom |-> "Anne Franck"],
       [code |-> "804G", nom |-> "Jean Moulin"],
       [code |-> "794G", nom |-> "Les enfants du Paradis"] >>

RESIDENCES == SubSeq(RESIDENCES_HEAD, 1, NumRes)

Codes == {RESIDENCES[k].code : k \in 1..Len(RESIDENCES)}

\* A resource id that is in no registry entry: a snapshot written when the
\* registry still listed it.
StaleCode == "999G"

Status == {"DISPONIBLE", "INDISPONIBLE"}

\* ------------------------------------------------------------------------
\* Dictionaries (Python dict with string keys)
\* ------------------------------------------------------------------------

EmptyDict == [c \in {} |-> "INDISPONIBLE"]

\* dict.get(key, default)
DictGet(d, key, default) == IF key \in DOMAIN d THEN d[key] ELSE default

\* d[key] = value
DictSet(d, key, value) ==
    [c \in (DOMAIN d) \cup {key} |-> IF c = key THEN value ELSE d[c]]

\* ------------------------------------------------------------------------
\* fetch_with_retry
\* ------------------------------------------------------------------------

\* What one session.get + raise_for_status can end with:
\*   "ok"   a response with a success status
\*   "conn" requests.exceptions.ConnectionError or Timeout
\*   "http" HTTPError from raise_for_status, or any other exception
AttemptOutcomes == {"ok", "conn", "http"}

AttemptSeqs == [1..max_attempts -> AttemptOutcomes]

\* What an attempt can end with when fetch_with_retry is looked at on its
\* own: "timeout" is requests.exceptions.Timeout, "other" any exception
\* that is neither a connection error, a timeout nor an HTTPError.
FetchOutcomes == AttemptOutcomes \cup {"timeout", "other"}

\* A handler that catches every exception of an attempt.
IsAnyError(out) == out # "ok"

\* except (requests.exceptions.ConnectionError, requests.exceptions.Timeout)
IsConnectionLevel(out) == out \in {"conn", "timeout"}

\* A backoff sleep after every failed attempt.
SleepsAlways(attempt) == TRUE

\* if attempt < max_attempts: time.sleep(wait)
SleepsAfter(attempt) == attempt < max_attempts

NoError == [kind |-> "none", attempt |-> 0]

\* fetch_with_retry on entry: last_error = None, the loop at attempt 1.
\* gets counts the session.get calls, sleeps lists the base waits slept.
FetchStart ==
    [status |-> "running", attempt |-> 1, last_error |-> NoError,
     sleeps |-> << >>, gets |-> 0, error |-> NoError]

\* One pass through the body of the for loop, the attempt ending with out.
FetchIter(st, out) ==
    LET e == [kind |-> out, attempt |-> st.attempt] IN
    IF out = "ok"
    THEN [st EXCEPT !.status = "returned", !.gets = @ + 1]
    ELSE IF IsConnectionLevel(out)
    THEN [st EXCEPT !.last_error = e,
                    !.gets = @ + 1,
                    !.sleeps = IF SleepsAfter(st.attempt)
                               THEN Append(@, 5 * st.attempt) ELSE @,
                    !.attempt = @ + 1]
    ELSE [st EXCEPT !.status = "raised", !.gets = @ + 1, !.error = e]

\* raise last_error, once range(1, max_attempts + 1) is used up
FetchRaiseLast(st) ==
    [st EXCEPT !.status = "raised", !.error = st.last_error]

RECURSIVE FetchLoop(_, _)
\* The for loop of fetch_with_retry from st on; outs[k] is what attempt k
\* ends with.
FetchLoop(outs, st) ==
    IF st.status # "running" THEN st
    ELSE IF st.attempt > max_attempts THEN FetchRaiseLast(st)
    ELSE FetchLoop(outs, FetchIter(st, outs[st.attempt]))

fetch_with_retry(outs) ==
    LET st == FetchLoop(outs, FetchStart) IN
    [ok |-> st.status = "returned", attempts |-> st.gets,
     sleeps |-> Len(st.sleeps), error |-> st.error.kind]

\* A scan that takes a failed fetch for a page without codes.
get_available_codes_swallow(f, page_codes) ==
    [error |-> "none", codes |-> IF f.ok THEN page_codes ELSE {}]

\* get_available_codes: the codes found in the page of RESIDENCES[0] when
\* the fetch f returned (page_codes), the exception of the fetch otherwise.
get_available_codes(f, page_codes) ==
    IF f.ok THEN [error |-> "none", codes |-> page_codes]
    ELSE [error |-> f.error, codes |-> {}]

\* ------------------------------------------------------------------------
\* get_residence_details
\* ------------------------------------------------------------------------

\* A detail document:
\*   table  whether a table.table-tarifs exists
\*   elems  in document order, the tr rows with id tr<digits> of that table
\*          (kind "row": number of cells, text of cell 0 and of cell 1) and
\*          the table.table-tarifs-detail tables (kind "dtable": its tr
\*          rows, the first being the header, each with its number of cells
\*          and the text of cell 1)
Row(ncells, type, nb_dispo) ==
    [kind |-> "row", ncells |-> ncells, type |-> type,
     nb_dispo |-> nb_dispo, rows |-> << >>]

DTable(rows) ==
    [kind |-> "dtable", ncells |-> 0, type |-> "", nb_dispo |-> "",
     rows |-> rows]

DRow(ncells, etage) == [ncells |-> ncells, etage |-> etage]

\* table.find_all("tr", id=re.compile(r"^tr\d+"))
FindRows(doc) == SelectSeq(doc.elems, LAMBDA e : e.kind = "row")

\* soup.find_all("table", class_="table-tarifs-detail"): the rows of each
FindDetailTables(doc) ==
    LET ts == SelectSeq(doc.elems, LAMBDA e : e.kind = "dtable") IN
    [k \in 1..Len(ts) |-> ts[k].rows]

NoDetails == << >>

RECURSIVE ScanRows(_, _)
\* for row in rows: skip rows with fewer than 5 cells, else append a unit
ScanRows(rows, logements) ==
    IF rows = << >> THEN logements
    ELSE LET row == Head(rows) IN
         ScanRows(Tail(rows),
                  IF row.ncells < 5 THEN logements
                  ELSE Append(logements,
                              [type |-> row.type, nb_dispo |-> row.nb_dispo,
                               details |-> NoDetails]))

\* All rows of all detail tables after each table's header, in document order.
RECURSIVE DetailRows(_)
DetailRows(dtables) ==
    IF dtables = << >> THEN << >>
    ELSE LET dt == Head(dtables) IN
         (IF Len(dt) = 0 THEN << >> ELSE Tail(dt)) \o DetailRows(Tail(dtables))

RECURSIVE AttachDetailsFirst(_, _)
\* The details attached to the first unit instead of the last.
AttachDetailsFirst(drows, logements) ==
    IF drows = << >> THEN logements
    ELSE LET dr == Head(drows) IN
         AttachDetailsFirst(Tail(drows),
             IF dr.ncells < 4 \/ Len(logements) = 0 THEN logements
             ELSE [logements EXCEPT ![1].details =
                        Append(@, [etage |-> dr.etage])])

RECURSIVE AttachDetails(_, _)
\* for dr in detail_rows[1:]: skip rows with fewer than 4 cells, else append
\* to logements[-1]["details"] when logements is not empty
AttachDetails(drows, logements) ==
    IF drows = << >> THEN logements
    ELSE LET dr == Head(drows)
             n  == Len(logements) IN
         AttachDetails(Tail(drows),
             IF dr.ncells < 4 \/ n = 0 THEN logements
             ELSE [logements EXCEPT ![n].details =
                        Append(@, [etage |-> dr.etage])])

get_residence_details(doc) ==
    IF ~doc.table THEN << >>
    ELSE AttachDetails(DetailRows(FindDetailTables(doc)),
                       ScanRows(FindRows(doc), << >>))

\* int(text) returns for these cell texts and raises ValueError for the others.
IsNumeric(text) == text \in {"0", "2"}

\* sum(int(l.get("nb_dispo", 0)) for l in logements) raises ValueError
SumRaises(logements) ==
    \E k \in 1..Len(logements) : ~IsNumeric(logements[k].nb_dispo)

\* The detail documents a run can receive: no table; a unit with a detail
\* table; a numeric and a non-numeric unit; a row that is too short.
Docs ==
    { [table |-> FALSE, elems |-> << >>],
      [table |-> TRUE,
       elems |-> << Row(5, "T1", "2"),
                    DTable(<< DRow(4, "Etage"), DRow(5, "3") >>) >>],
      [table |-> TRUE,
       elems |-> << Row(5, "T1", "2"), Row(5, "T2", "abc") >>],
      [table |-> TRUE,
       elems |-> << Row(4, "T2", "2") >>] }

\* The elements the documents of the extraction check are made of.
DetailElems ==
    { Row(5, "T1", "2"), Row(5, "T2", "0"), Row(4, "T3", "2"),
      DTable(<< DRow(0, "Etage"), DRow(4, "e1"), DRow(3, "e2"), DRow(5, "e3") >>),
      DTable(<< DRow(4, "e4") >>),
      DTable(<< DRow(0, "Etage"), DRow(4, "e5") >>) }

\* Longest document of the extraction check, in elements.
MaxElems == 3

DetailDocs ==
    { [table |-> t, elems |-> e] :
        t \in BOOLEAN,
        e \in UNION { [1..n -> DetailElems] : n \in 0..MaxElems } }

\* ------------------------------------------------------------------------
\* The snapshot file STATE_FILE
\* ------------------------------------------------------------------------

\* The file is absent, holds a complete JSON object, or is "truncated": it
\* was opened for writing (which empties it) and not yet written and closed.
NoFile == [status |-> "absent", data |-> EmptyDict]

Truncated == [status |-> "truncated", data |-> EmptyDict]

\* What the file holds once save_state(state) has returned.
Dumped(state) == [status |-> "complete", data |-> state]

\* load_previous_state(): {} without a file, json.load(f) otherwise, which
\* raises JSONDecodeError on an empty or cut-off file.
load_previous_state(file) ==
    IF file.status = "absent" THEN [ok |-> TRUE, state |-> EmptyDict]
    ELSE IF file.status = "truncated" THEN [ok |-> FALSE, state |-> EmptyDict]
    ELSE [ok |-> TRUE, state |-> file.data]

\* save_state(state) after open(STATE_FILE, "w"): only that has truncated the file
save_state_open(state) == Truncated

\* A save that keeps the available entries only.
save_state_available_only(state) ==
    Dumped([c \in {d \in DOMAIN state : state[d] = "DISPONIBLE"} |-> state[c]])

\* save_state(state) after json.dump and the close of the with block
save_state(state) == Dumped(state)

\* ------------------------------------------------------------------------
\* The body of main's per-resource loop
\* ------------------------------------------------------------------------

StatusOf(has_dispo) == IF has_dispo THEN "DISPONIBLE" ELSE "INDISPONIBLE"

\* The diff without its edge trigger: every available resource is new.
AlwaysNew(prev) == TRUE

\* if prev != "DISPONIBLE"
IsNewAvailability(prev) == prev # "DISPONIBLE"

\* A handler that names the request errors only.
ExceptRequestErrors(exc) == exc \in {"conn", "http"}

\* What `except Exception as e` catches when raised inside the try block.
ExceptException(exc) == exc \in {"conn", "http", "ValueError"}

NewAvailability(res, logements) ==
    [residence |-> res.nom, logements |-> logements, url |-> res.code]

\* The try block for a resource with has_dispo: f is the outcome of the
\* fetch inside get_residence_details, doc the document received.  exc is
\* the exception the block ends with ("none" when it runs to its end).
TryBlock(res, prev_state, results, new_av, f, doc) ==
    IF ~f.ok
    THEN [exc |-> f.error, all_results |-> results,
          new_availabilities |-> new_av, slept |-> FALSE]
    ELSE LET logements == get_residence_details(doc)
             results1  == Append(results, <<res, logements>>) IN
         IF SumRaises(logements)
         THEN [exc |-> "ValueError", all_results |-> results1,
               new_availabilities |-> new_av, slept |-> FALSE]
         ELSE LET prev == DictGet(prev_state, res.code, "INDISPONIBLE") IN
              [exc |-> "none", all_results |-> results1,
               new_availabilities |->
                   IF IsNewAvailability(prev)
                   THEN Append(new_av, NewAvailability(res, logements))
                   ELSE new_av,
               slept |-> TRUE]

\* One iteration of `for i, res in enumerate(RESIDENCES, 1)`.  raised is the
\* exception that leaves the iteration ("none" when it completes).
LoopBody(res, av_codes, prev_state, cur_state, results, new_av, f, doc) ==
    LET has_dispo == res.code \in av_codes
        cur1      == DictSet(cur_state, res.code, StatusOf(has_dispo)) IN
    IF ~has_dispo
    THEN [current_state |-> cur1,
          all_results |-> Append(results, <<res, << >> >>),
          new_availabilities |-> new_av, exc |-> "none", raised |-> "none",
          fetched |-> FALSE, slept |-> FALSE]
    ELSE LET t == TryBlock(res, prev_state, results, new_av, f, doc) IN
         IF t.exc = "none"
         THEN [current_state |-> cur1, all_results |-> t.all_results,
               new_availabilities |-> t.new_availabilities,
               exc |-> "none", raised |-> "none",
               fetched |-> TRUE, slept |-> t.slept]
         ELSE IF ExceptException(t.exc)
         THEN [current_state |-> cur1,
               all_results |-> Append(t.all_results, <<res, << >> >>),
               new_availabilities |-> t.new_availabilities,
               exc |-> t.exc, raised |-> "none",
               fetched |-> TRUE, slept |-> t.slept]
         ELSE [current_state |-> cur1, all_results |-> t.all_results,
               new_availabilities |-> t.new_availabilities,
               exc |-> t.exc, raised |-> t.exc,
               fetched |-> TRUE, slept |-> t.slept]

\* ------------------------------------------------------------------------
\* Notification
\* ------------------------------------------------------------------------

\* The text main builds: one entry per element of new_availabilities, with
\* one line per unit and one line per detail of the unit.
MessageEntry(a) ==
    [residence |-> a.residence, url |-> a.url,
     lines |-> [k \in 1..Len(a.logements) |->
                  [type |-> a.logements[k].type,
                   nb_dispo |-> a.logements[k].nb_dispo,
                   etages |-> [j \in 1..Len(a.logements[k].details) |->
                                 a.logements[k].details[j].etage]]]]

BuildMessage(new_av) == [k \in 1..Len(new_av) |-> MessageEntry(new_av[k])]

\* One send_telegram call per transition.
NotifyCallsPerTransition(new_av) ==
    [k \in 1..Len(new_av) |-> BuildMessage(<< new_av[k] >>)]

\* The send_telegram calls main makes, in order: the message of each.
NotifyCalls(new_av) ==
    IF new_av # << >> THEN << BuildMessage(new_av) >> ELSE << >>

\* What urlopen can end with: status 200, another status, an exception.
NetOutcomes == {"200", "non200", "error"}

\* A credentials test that gives up only when both are missing.
send_telegram_either(message, token, chat_id, net) ==
    IF token = "" /\ chat_id = ""
    THEN [request |-> FALSE, delivered |-> FALSE, raised |-> "none"]
    ELSE [request |-> TRUE, delivered |-> (net = "200"), raised |-> "none"]

\* send_telegram(message) with the credentials of the process and the
\* outcome net of urlopen: whether a request went out, whether it was
\* accepted, and the exception that leaves the function.
send_telegram(message, token, chat_id, net) ==
    IF token = "" \/ chat_id = ""
    THEN [request |-> FALSE, delivered |-> FALSE, raised |-> "none"]
    ELSE [request |-> TRUE, delivered |-> (net = "200"), raised |-> "none"]

\* ------------------------------------------------------------------------
\* The end of main
\* ------------------------------------------------------------------------

\* generate_html: the residences shown as available and as unavailable
generate_html(results) ==
    [disponibles   |-> SelectSeq(results, LAMBDA p : p[2] # << >>),
     indisponibles |-> SelectSeq(results, LAMBDA p : p[2] = << >>)]

\* nb_dispo = sum(1 for _, l in all_results if l)
CountDispo(results) == Len(SelectSeq(results, LAMBDA p : p[2] # << >>))

NoSummary == [nb_dispo |-> -1, total |-> -1]

\* main with the notification ahead of save_state.
NextPcNotifyFirst(p) ==
    CASE p = "load"      -> "loop"
      [] p = "loop"      -> "html"
      [] p = "html"      -> "notify"
      [] p = "notify"    -> "save_open"
      [] p = "save_open" -> "save_dump"
      [] p = "save_dump" -> "summary"
      [] p = "summary"   -> "done"
      [] OTHER           -> p

\* main with save_state ahead of the loop.
NextPcSaveFirst(p) ==
    CASE p = "load"      -> "save_open"
      [] p = "save_open" -> "save_dump"
      [] p = "save_dump" -> "loop"
      [] p = "loop"      -> "html"
      [] p = "html"      -> "notify"
      [] p = "notify"    -> "summary"
      [] p = "summary"   -> "done"
      [] OTHER           -> p

\* The statements of main after get_available_codes, in program order.
NextPc(p) ==
    CASE p = "load"      -> "loop"
      [] p = "loop"      -> "save_open"
      [] p = "save_open" -> "save_dump"
      [] p = "save_dump" -> "html"
      [] p = "html"      -> "notify"
      [] p = "notify"    -> "summary"
      [] p = "summary"   -> "done"
      [] OTHER           -> p

\* ------------------------------------------------------------------------
\* State
\* ------------------------------------------------------------------------

VARIABLES
    pc,                  \* where the process is in main ("idle": not running)
    TELEGRAM_BOT_TOKEN,  \* os.environ.get("TELEGRAM_BOT_TOKEN", "")
    TELEGRAM_CHAT_ID,    \* os.environ.get("TELEGRAM_CHAT_ID", "")
    state_file,          \* the content of STATE_FILE
    available_codes,     \* main: the result of get_available_codes
    previous_state,      \* main
    current_state,       \* main
    all_results,         \* main
    new_availabilities,  \* main
    i,                   \* main: index of the next registry entry
    summary,             \* the numbers of the final "Résumé" line
    report,              \* what generate_html rendered
    sent,                \* the messages send_telegram was called with
    requests,            \* the requests that went out to api.telegram.org
    exc_cause,           \* the statement whose exception left main
    detail_exc,          \* history: code -> exception of its try block
    file_at_start,       \* history: STATE_FILE when the run started
    last_run,            \* history: the last run whose save_state returned
    scan_error,          \* history: the exception of the scan's fetch
    log,                 \* history: the detail fetches and pacing sleeps
    writes,              \* history: how often the run opened STATE_FILE "w"
    f_outs,              \* fetch_with_retry alone: what each attempt ends with
    f_st,                \* fetch_with_retry alone: its local state
    d_doc,               \* get_residence_details alone: the document
    d_out                \* get_residence_details alone: its result

main_vars == << pc, TELEGRAM_BOT_TOKEN, TELEGRAM_CHAT_ID, state_file,
                available_codes, previous_state, current_state, all_results,
                new_availabilities, i, summary, report, sent, requests,
                exc_cause, detail_exc, file_at_start, last_run, scan_error,
                log, writes >>

\* The variables of the two functions looked at on their own.
aux_vars == << f_outs, f_st, d_doc, d_out >>

vars == << main_vars, aux_vars >>

proc_vars == << available_codes, previous_state, current_state, all_results,
                new_availabilities, i, summary, report >>

NoRun == [saved |-> FALSE, state |-> EmptyDict, scan |-> {}, notify |-> "none"]

NoReport == [disponibles |-> << >>, indisponibles |-> << >>]

\* The memory of a process that has just started.
FreshProcess ==
    /\ available_codes' = {}
    /\ previous_state' = EmptyDict
    /\ current_state' = EmptyDict
    /\ all_results' = << >>
    /\ new_availabilities' = << >>
    /\ i' = 1
    /\ summary' = NoSummary
    /\ report' = NoReport

\* The snapshot files a first run can find: none, or one written when the
\* registry held another entry.
InitialFiles ==
    {NoFile} \cup {Dumped([c \in {StaleCode} |-> s]) : s \in Status}

\* The values the two environment variables can have.
EnvValues == {"", "set"}

NoOutput == [done |-> FALSE, logements |-> << >>]

NoDoc == [table |-> FALSE, elems |-> << >>]

\* The two functions are not looked at: their variables are at rest.
AuxIdle ==
    /\ f_outs = [k \in 1..max_attempts |-> "ok"]
    /\ f_st = FetchStart
    /\ d_doc = NoDoc
    /\ d_out = NoOutput

\* No process has run yet.
MainInit ==
    /\ pc = "idle"
    /\ TELEGRAM_BOT_TOKEN = ""
    /\ TELEGRAM_CHAT_ID = ""
    /\ state_file \in InitialFiles
    /\ available_codes = {}
    /\ previous_state = EmptyDict
    /\ current_state = EmptyDict
    /\ all_results = << >>
    /\ new_availabilities = << >>
    /\ i = 1
    /\ summary = NoSummary
    /\ report = NoReport
    /\ sent = << >>
    /\ requests = << >>
    /\ exc_cause = "none"
    /\ detail_exc = EmptyDict
    /\ file_at_start = state_file
    /\ last_run = NoRun
    /\ scan_error = "none"
    /\ log = << >>
    /\ writes = 0

Init == MainInit /\ AuxIdle

Running == {"scan", "load", "loop", "save_open", "save_dump", "html",
            "notify", "summary"}

\* ------------------------------------------------------------------------
\* Steps
\* ------------------------------------------------------------------------

\* The script is started: module level reads the environment, main begins.
StartRun ==
    /\ pc \in {"idle", "done", "aborted", "killed"}
    /\ pc' = "scan"
    /\ TELEGRAM_BOT_TOKEN' \in EnvValues
    /\ TELEGRAM_CHAT_ID' \in EnvValues
    /\ FreshProcess
    /\ sent' = << >>
    /\ requests' = << >>
    /\ exc_cause' = "none"
    /\ detail_exc' = EmptyDict
    /\ file_at_start' = state_file
    /\ scan_error' = "none"
    /\ log' = << >>
    /\ writes' = 0
    /\ UNCHANGED << state_file, last_run >>
    /\ UNCHANGED aux_vars

\* available_codes = get_available_codes(session): the codes found in the
\* page, or the exception of fetch_with_retry, which main does not catch.
Scan ==
    /\ pc = "scan"
    /\ \E outs \in AttemptSeqs, page_codes \in SUBSET Codes :
         LET f == fetch_with_retry(outs)
             g == get_available_codes(f, page_codes) IN
         /\ scan_error' = f.error
         /\ available_codes' = g.codes
         /\ IF g.error = "none"
            THEN pc' = "load" /\ exc_cause' = "none"
            ELSE pc' = "aborted" /\ exc_cause' = "scan"
    /\ UNCHANGED << TELEGRAM_BOT_TOKEN, TELEGRAM_CHAT_ID, state_file,
                    previous_state, current_state, all_results,
                    new_availabilities, i, summary, report, sent, requests,
                    detail_exc, file_at_start, last_run, log, writes >>
    /\ UNCHANGED aux_vars

\* previous_state = load_previous_state(); current_state = {}; ...
Load ==
    /\ pc = "load"
    /\ LET l == load_previous_state(state_file) IN
       IF l.ok
       THEN /\ previous_state' = l.state
            /\ pc' = NextPc(pc)
            /\ exc_cause' = "none"
       ELSE /\ previous_state' = EmptyDict
            /\ pc' = "aborted"
            /\ exc_cause' = "load"
    /\ current_state' = EmptyDict
    /\ all_results' = << >>
    /\ new_availabilities' = << >>
    /\ i' = 1
    /\ UNCHANGED << TELEGRAM_BOT_TOKEN, TELEGRAM_CHAT_ID, state_file,
                    available_codes, summary, report, sent, requests,
                    detail_exc, file_at_start, last_run >>
    /\ UNCHANGED << scan_error, log, writes >>
    /\ UNCHANGED aux_vars

\* What an iteration leaves in the log: the detail request of the resource
\* when one was made, the time.sleep(random.uniform(1.0, 3.0)) when reached.
LoopEvents(res, b) ==
    (IF b.fetched THEN << [ev |-> "fetch", code |-> res.code] >> ELSE << >>)
    \o (IF b.slept THEN << [ev |-> "pace", code |-> res.code] >> ELSE << >>)

\* One iteration of the loop over RESIDENCES.
LoopStep ==
    /\ pc = "loop"
    /\ i <= Len(RESIDENCES)
    /\ \E outs \in AttemptSeqs, doc \in Docs :
         LET res == RESIDENCES[i]
             b   == LoopBody(res, available_codes, previous_state,
                             current_state, all_results, new_availabilities,
                             fetch_with_retry(outs), doc) IN
         /\ current_state' = b.current_state
         /\ all_results' = b.all_results
         /\ new_availabilities' = b.new_availabilities
         /\ detail_exc' = IF b.exc = "none" THEN detail_exc
                          ELSE DictSet(detail_exc, res.code, b.exc)
         /\ log' = log \o LoopEvents(res, b)
         /\ IF b.raised = "none"
            THEN /\ i' = i + 1
                 /\ pc' = pc
                 /\ exc_cause' = "none"
            ELSE /\ i' = i
                 /\ pc' = "aborted"
                 /\ exc_cause' = "loop"
    /\ UNCHANGED << TELEGRAM_BOT_TOKEN, TELEGRAM_CHAT_ID, state_file,
                    available_codes, previous_state, summary, report, sent,
                    requests, file_at_start, last_run >>
    /\ UNCHANGED << scan_error, writes >>
    /\ UNCHANGED aux_vars

\* The loop has gone through RESIDENCES.
LoopEnd ==
    /\ pc = "loop"
    /\ i > Len(RESIDENCES)
    /\ pc' = NextPc(pc)
    /\ UNCHANGED << TELEGRAM_BOT_TOKEN, TELEGRAM_CHAT_ID, state_file,
                    proc_vars, sent, requests, exc_cause, detail_exc,
                    file_at_start, last_run >>
    /\ UNCHANGED << scan_error, log, writes >>
    /\ UNCHANGED aux_vars

\* save_state: open(STATE_FILE, "w")
SaveOpen ==
    /\ pc = "save_open"
    /\ state_file' = save_state_open(current_state)
    /\ pc' = NextPc(pc)
    /\ UNCHANGED << TELEGRAM_BOT_TOKEN, TELEGRAM_CHAT_ID, proc_vars, sent,
                    requests, exc_cause, detail_exc, file_at_start, last_run >>
    /\ writes' = writes + 1
    /\ UNCHANGED << scan_error, log >>
    /\ UNCHANGED aux_vars

\* save_state: json.dump(state, f, ...) and the end of the with block
SaveDump ==
    /\ pc = "save_dump"
    /\ state_file' = save_state(current_state)
    /\ last_run' = [saved |-> TRUE, state |-> current_state,
                    scan |-> available_codes, notify |-> "none"]
    /\ pc' = NextPc(pc)
    /\ UNCHANGED << TELEGRAM_BOT_TOKEN, TELEGRAM_CHAT_ID, proc_vars, sent,
                    requests, exc_cause, detail_exc, file_at_start >>
    /\ UNCHANGED << scan_error, log, writes >>
    /\ UNCHANGED aux_vars

\* html = generate_html(all_results, scan_time), written to public/
GenerateHtml ==
    /\ pc = "html"
    /\ report' = generate_html(all_results)
    /\ pc' = NextPc(pc)
    /\ UNCHANGED << TELEGRAM_BOT_TOKEN, TELEGRAM_CHAT_ID, state_file,
                    available_codes, previous_state, current_state,
                    all_results, new_availabilities, i, summary, sent,
                    requests, exc_cause, detail_exc, file_at_start, last_run >>
    /\ UNCHANGED << scan_error, log, writes >>
    /\ UNCHANGED aux_vars

RECURSIVE SendAll(_, _, _, _)
\* The send_telegram calls of `calls` one after the other, nets[k] being
\* what urlopen ends with in call k: the calls made, the requests that went
\* out, and the exception that ended the sequence.
SendAll(calls, nets, token, chat_id) ==
    IF calls = << >> THEN [sent |-> << >>, requests |-> << >>, raised |-> "none"]
    ELSE LET r    == send_telegram(Head(calls), token, chat_id, Head(nets))
             req  == IF r.request
                     THEN << [text |-> Head(calls), delivered |-> r.delivered] >>
                     ELSE << >>
             rest == IF r.raised = "none"
                     THEN SendAll(Tail(calls), Tail(nets), token, chat_id)
                     ELSE [sent |-> << >>, requests |-> << >>,
                           raised |-> r.raised] IN
         [sent |-> << Head(calls) >> \o rest.sent,
          requests |-> req \o rest.requests,
          raised |-> rest.raised]

\* if new_availabilities: build msg, send_telegram(msg)
Notify ==
    /\ pc = "notify"
    /\ LET calls == NotifyCalls(new_availabilities) IN
       \E nets \in [1..Len(calls) -> NetOutcomes] :
         LET out == SendAll(calls, nets, TELEGRAM_BOT_TOKEN,
                            TELEGRAM_CHAT_ID) IN
         /\ sent' = sent \o out.sent
         /\ requests' = requests \o out.requests
         /\ last_run' =
              IF ~last_run.saved \/ calls = << >> THEN last_run
              ELSE [last_run EXCEPT !.notify =
                      IF \E k \in 1..Len(out.requests) :
                            out.requests[k].delivered
                      THEN "delivered" ELSE "failed"]
         /\ IF out.raised = "none"
            THEN pc' = NextPc(pc) /\ exc_cause' = "none"
            ELSE pc' = "aborted" /\ exc_cause' = "notify"
    /\ UNCHANGED << TELEGRAM_BOT_TOKEN, TELEGRAM_CHAT_ID, state_file,
                    proc_vars, detail_exc, file_at_start >>
    /\ UNCHANGED << scan_error, log, writes >>
    /\ UNCHANGED aux_vars

\* nb_dispo = ...; the "Résumé" line
Summary ==
    /\ pc = "summary"
    /\ summary' = [nb_dispo |-> CountDispo(all_results),
                   total |-> Len(RESIDENCES)]
    /\ pc' = NextPc(pc)
    /\ UNCHANGED << TELEGRAM_BOT_TOKEN, TELEGRAM_CHAT_ID, state_file,
                    available_codes, previous_state, current_state,
                    all_results, new_availabilities, i, report, sent,
                    requests, exc_cause, detail_exc, file_at_start, last_run >>
    /\ UNCHANGED << scan_error, log, writes >>
    /\ UNCHANGED aux_vars

\* The process is killed from outside: its memory is gone, the file stays
\* as the last completed system call left it.
Kill ==
    /\ pc \in Running
    /\ pc' = "killed"
    /\ FreshProcess
    /\ UNCHANGED << TELEGRAM_BOT_TOKEN, TELEGRAM_CHAT_ID, state_file, sent,
                    requests, exc_cause, detail_exc, file_at_start, last_run >>
    /\ log' = << >>
    /\ UNCHANGED << scan_error, writes >>
    /\ UNCHANGED aux_vars

\* The steps of main itself.
MainStep ==
    \/ Scan
    \/ Load
    \/ LoopStep
    \/ LoopEnd
    \/ SaveOpen
    \/ SaveDump
    \/ GenerateHtml
    \/ Notify
    \/ Summary

Next ==
    \/ StartRun
    \/ MainStep
    \/ Kill

Spec == Init /\ [][Next]_vars

\* main runs on once started, unless it is killed.
FairSpec == Spec /\ WF_vars(MainStep)

\* ------------------------------------------------------------------------
\* fetch_with_retry on its own
\* ------------------------------------------------------------------------

\* A call of fetch_with_retry, the attempts ending as f_outs says.
FetchInit ==
    /\ MainInit
    /\ f_outs \in [1..max_attempts -> FetchOutcomes]
    /\ f_st = FetchStart
    /\ d_doc = NoDoc
    /\ d_out = NoOutput

\* One pass through the for loop.
FetchAttempt ==
    /\ f_st.status = "running"
    /\ f_st.attempt <= max_attempts
    /\ f_st' = FetchIter(f_st, f_outs[f_st.attempt])
    /\ UNCHANGED << main_vars, f_outs, d_doc, d_out >>

\* The for loop is used up: raise last_error.
FetchGiveUp ==
    /\ f_st.status = "running"
    /\ f_st.attempt > max_attempts
    /\ f_st' = FetchRaiseLast(f_st)
    /\ UNCHANGED << main_vars, f_outs, d_doc, d_out >>

FetchNext ==
    \/ FetchAttempt
    \/ FetchGiveUp

\* The call runs on: nothing in it waits for anything but its own sleeps.
SpecFetch == FetchInit /\ [][FetchNext]_vars /\ WF_vars(FetchNext)

\* ------------------------------------------------------------------------
\* get_residence_details on its own
\* ------------------------------------------------------------------------

\* A call of get_residence_details that received the document d_doc.
DetailsInit ==
    /\ MainInit
    /\ f_outs = [k \in 1..max_attempts |-> "ok"]
    /\ f_st = FetchStart
    /\ d_doc \in DetailDocs
    /\ d_out = NoOutput

\* The function from the parse of the response to its return.
ExtractDetails ==
    /\ ~d_out.done
    /\ d_out' = [done |-> TRUE, logements |-> get_residence_details(d_doc)]
    /\ UNCHANGED << main_vars, f_outs, f_st, d_doc >>

DetailsNext == ExtractDetails

SpecDetails == DetailsInit /\ [][DetailsNext]_vars

TypeOK ==
    /\ pc \in Running \cup {"idle", "done", "aborted", "killed"}
    /\ i \in 1..(Len(RESIDENCES) + 1)
    /\ available_codes \subseteq Codes
    /\ Len(sent) <= Len(RESIDENCES)

\* ------------------------------------------------------------------------
\* Vocabulary of the properties
\* ------------------------------------------------------------------------

\* The registry entries the loop has gone through in this run.
Processed == {RESIDENCES[k] : k \in 1..(i - 1)}

\* new_availabilities holds a transition for res.
Collected(res) ==
    \E j \in 1..Len(new_availabilities) :
        new_availabilities[j].residence = res.nom

\* res is in the scan result and its loaded prior status is not DISPONIBLE.
Due(res) ==
    /\ res.code \in available_codes
    /\ DictGet(previous_state, res.code, "INDISPONIBLE") # "DISPONIBLE"

\* The statuses this run determines from the summary scan.
RunStatuses == [c \in Codes |-> StatusOf(c \in available_codes)]

\* main is past save_state and the process still holds its memory.
PastSave == pc \in {"html", "notify", "summary", "done"}

\* ------------------------------------------------------------------------
\* C1
\* ------------------------------------------------------------------------

\* C1: for every registry resource the loop has processed, a transition is
\* in new_availabilities if and only if its code is in the scan result and
\* the status loaded for it (INDISPONIBLE when absent) is not DISPONIBLE.
C1_TransitionIffDue ==
    pc \in Running \cup {"done"} =>
        \A res \in Processed : Collected(res) <=> Due(res)

\* ------------------------------------------------------------------------
\* C2
\* ------------------------------------------------------------------------

\* A transition for res is added by this step.
Fires(res) ==
    /\ ~Collected(res)
    /\ \E j \in 1..Len(new_availabilities') :
           new_availabilities'[j].residence = res.nom

\* The last completed save recorded res as DISPONIBLE.
SavedAvailable(res) ==
    /\ last_run.saved
    /\ DictGet(last_run.state, res.code, "INDISPONIBLE") = "DISPONIBLE"

\* This run loaded the snapshot the last completed run saved, and its scan
\* result is that run's scan result.
UnchangedRerun ==
    /\ pc \in {"loop", "save_open", "save_dump"}
    /\ last_run.saved
    /\ previous_state = last_run.state
    /\ available_codes = last_run.scan

\* C2: no step fires a transition for a resource that the last completed
\* save recorded as DISPONIBLE (so a streak of runs that find it available
\* fires at most once), and a run on the snapshot of the previous run with
\* the same scan result collects no transition.
C2_OneTransitionPerStreak ==
    /\ [][\A k \in 1..Len(RESIDENCES) :
            Fires(RESIDENCES[k]) => ~SavedAvailable(RESIDENCES[k])]_vars
    /\ [](UnchangedRerun => new_availabilities = << >>)

\* A re-run with an unchanged, non-empty scan result has gone through the
\* registry without a transition, after a run whose delivery failed.
C2_Witness ==
    /\ UnchangedRerun
    /\ pc = "save_open"
    /\ available_codes # {}
    /\ last_run.notify = "failed"
    /\ new_availabilities = << >>
    /\ \E k \in 1..Len(all_results) : all_results[k][2] # << >>

\* ------------------------------------------------------------------------
\* C3
\* ------------------------------------------------------------------------

\* C3: whenever send_telegram has been called in this run, the snapshot
\* file holds the complete statuses of this run.
C3_SavedBeforeNotify ==
    (pc \in Running \cup {"done"} /\ sent # << >>) =>
        state_file = Dumped(RunStatuses)

\* A run whose request to Telegram failed has ended, and the file holds its
\* statuses, which differ from the file the run started with.
C3_Witness ==
    /\ pc = "done"
    /\ Len(requests) = 1
    /\ ~requests[1].delivered
    /\ state_file = Dumped(RunStatuses)
    /\ state_file # file_at_start

\* ------------------------------------------------------------------------
\* C4
\* ------------------------------------------------------------------------

\* The detail fetch of res failed with every attempt used up.
FetchExhausted(res) ==
    DictGet(detail_exc, res.code, "none") = "conn"

\* Every call of send_telegram made so far carries an entry for res.
Notified(res) ==
    \A m \in 1..Len(sent) :
        \E k \in 1..Len(sent[m]) : sent[m][k].residence = res.nom

\* C4: when the detail fetch of a processed resource B failed after its
\* retries, every other processed resource A whose transition is due has
\* it collected, and has it in the message once the message is sent; and
\* past save_state the file records B as DISPONIBLE.
C4_FailureIsolated ==
    pc \in Running \cup {"done"} =>
        \A b \in Processed :
            FetchExhausted(b) =>
                /\ \A a \in Processed \ {b} :
                       Due(a) => (Collected(a) /\ Notified(a))
                /\ PastSave =>
                       DictGet(state_file.data, b.code, "none") = "DISPONIBLE"

\* ------------------------------------------------------------------------
\* C5
\* ------------------------------------------------------------------------

\* C5: a processed resource whose try block raised and whose transition is
\* due has a transition in new_availabilities, with no units.
C5_TransitionDespiteFailure ==
    pc \in Running \cup {"done"} =>
        \A res \in Processed :
            (res.code \in DOMAIN detail_exc /\ Due(res)) =>
                \E j \in 1..Len(new_availabilities) :
                    /\ new_availabilities[j].residence = res.nom
                    /\ new_availabilities[j].logements = << >>

\* ------------------------------------------------------------------------
\* C6
\* ------------------------------------------------------------------------

\* C6: a run calls send_telegram at most once and at most one request goes
\* out; past the notification step, with transitions collected there was
\* exactly one call and its text has an entry for each of them, and with
\* none collected there was no call and no request.
C6_OneAggregatedMessage ==
    pc \in Running \cup {"done"} =>
        /\ Len(sent) <= 1
        /\ Len(requests) <= 1
        /\ pc \in {"summary", "done"} =>
              IF new_availabilities # << >>
              THEN /\ Len(sent) = 1
                   /\ Len(sent[1]) = Len(new_availabilities)
                   /\ \A j \in 1..Len(new_availabilities) :
                         /\ sent[1][j].residence =
                                new_availabilities[j].residence
                         /\ sent[1][j].url = new_availabilities[j].url
              ELSE sent = << >> /\ requests = << >>

\* A run has ended after collecting a transition for every registry entry
\* and sending them in one request.
C6_Witness ==
    /\ pc = "done"
    /\ Len(new_availabilities) = Len(RESIDENCES)
    /\ Len(sent) = 1
    /\ Len(sent[1]) = Len(RESIDENCES)
    /\ Len(requests) = 1

\* ------------------------------------------------------------------------
\* C7
\* ------------------------------------------------------------------------

\* C7: past save_state the file is complete, has an entry for exactly the
\* registry codes, and each entry is DISPONIBLE iff the code is in the scan
\* result.
C7_SnapshotIsScan ==
    PastSave =>
        /\ state_file.status = "complete"
        /\ Codes \subseteq DOMAIN state_file.data
        /\ \A c \in Codes :
              state_file.data[c] = "DISPONIBLE" <=> c \in available_codes

\* A run has ended in which the try block of one resource raised and
\* another resource went from DISPONIBLE to INDISPONIBLE.
C7_Witness ==
    /\ pc = "done"
    /\ detail_exc # EmptyDict
    /\ \E c \in Codes :
          /\ DictGet(previous_state, c, "none") = "DISPONIBLE"
          /\ state_file.data[c] = "INDISPONIBLE"

\* ------------------------------------------------------------------------
\* C8
\* ------------------------------------------------------------------------

\* C8: past save_state every id of the loaded snapshot has an entry in the
\* file, and the entry of an id the run did not process has its loaded
\* value.
C8_EntriesNeverDeleted ==
    PastSave =>
        \A c \in DOMAIN previous_state :
            /\ c \in DOMAIN state_file.data
            /\ c \notin Codes => state_file.data[c] = previous_state[c]

\* ------------------------------------------------------------------------
\* C9
\* ------------------------------------------------------------------------

\* C9: when the process has been killed, the file is not truncated: it is
\* the file the run started with or the complete snapshot the run saved.
C9_AtomicSave ==
    pc = "killed" =>
        /\ state_file.status # "truncated"
        /\ \/ state_file = file_at_start
           \/ last_run.saved /\ state_file = Dumped(last_run.state)

\* ------------------------------------------------------------------------
\* C10
\* ------------------------------------------------------------------------

\* main has printed its final line: the snapshot of the run is in the file,
\* the notification step is behind, the summary numbers are out.
Finished ==
    /\ pc = "done"
    /\ state_file = Dumped(current_state)
    /\ summary # NoSummary

\* C10: no exception leaves main from the per-resource loop or from the
\* notification step, and a run whose scan has succeeded and whose snapshot
\* file can be read goes on to its final line unless it is killed.
C10_RunCompletes ==
    /\ [](exc_cause \notin {"loop", "notify"})
    /\ (pc = "load" /\ state_file.status # "truncated")
           ~> (Finished \/ pc = "killed")

\* A run has reached its final line although the try block of a resource
\* raised and the request to Telegram failed.
C10_Witness ==
    /\ Finished
    /\ detail_exc # EmptyDict
    /\ Len(requests) = 1
    /\ ~requests[1].delivered

\* ------------------------------------------------------------------------
\* C11
\* ------------------------------------------------------------------------

\* C11: when the fetch of the summary scan has failed, main has ended with
\* the exception of the scan, the snapshot file is the one the run started
\* with and was not opened for writing, and no detail fetch, no call of
\* send_telegram and no request to Telegram was made.
C11_ScanFailureAborts ==
    scan_error # "none" =>
        /\ pc = "aborted"
        /\ exc_cause = "scan"
        /\ state_file = file_at_start
        /\ writes = 0
        /\ log = << >>
        /\ sent = << >>
        /\ requests = << >>

\* The scan failed after its retries in a run that started on the snapshot
\* of an earlier run, in which a resource was available.
C11_Witness ==
    /\ scan_error = "conn"
    /\ pc = "aborted"
    /\ last_run.saved
    /\ state_file = Dumped(last_run.state)
    /\ \E c \in Codes : state_file.data[c] = "DISPONIBLE"

\* ------------------------------------------------------------------------
\* C12
\* ------------------------------------------------------------------------

\* The attempts before attempt k all ended with a connection error or a
\* timeout.
OnlyConnectionFailuresBefore(k) ==
    \A j \in 1..(k - 1) : f_outs[j] \in {"conn", "timeout"}

\* The call has ended.
FetchEnded == f_st.status # "running"

\* C12: fetch_with_retry ends, having made at most max_attempts requests,
\* each but the first after a connection-level failure of the one before;
\* it returns exactly at the first attempt that succeeds when only
\* connection-level failures precede it; and when all max_attempts
\* attempts fail at connection level it raises the error of the last one.
C12_BoundedRetry ==
    /\ [](/\ f_st.gets <= max_attempts
          /\ OnlyConnectionFailuresBefore(f_st.gets)
          /\ f_st.status = "returned" => f_outs[f_st.gets] = "ok"
          /\ FetchEnded =>
                \A k \in 1..max_attempts :
                    (f_outs[k] = "ok" /\ OnlyConnectionFailuresBefore(k)) =>
                        (f_st.status = "returned" /\ f_st.gets = k)
          /\ (FetchEnded /\ OnlyConnectionFailuresBefore(max_attempts + 1)) =>
                /\ f_st.status = "raised"
                /\ f_st.gets = max_attempts
                /\ f_st.error = [kind |-> f_outs[max_attempts],
                                 attempt |-> max_attempts])
    /\ <>FetchEnded

\* Two connection errors and then a timeout: the call has raised the
\* timeout of the third attempt.
C12_Witness ==
    /\ f_outs = << "conn", "conn", "timeout" >>
    /\ f_st.status = "raised"
    /\ f_st.error = [kind |-> "timeout", attempt |-> 3]
    /\ f_st.gets = 3

\* ------------------------------------------------------------------------
\* C13
\* ------------------------------------------------------------------------

\* The positions in the document of the rows the summary pass makes units
\* of: rows of the table with at least 5 cells.
UnitPositions ==
    IF ~d_doc.table THEN {}
    ELSE {p \in 1..Len(d_doc.elems) :
              d_doc.elems[p].kind = "row" /\ d_doc.elems[p].ncells >= 5}

\* The floors of the detail rows of one element that have at least 4
\* cells, the first row of a detail table being its header.
EtagesOf(e) ==
    IF e.kind # "dtable" \/ Len(e.rows) = 0 THEN << >>
    ELSE LET sel == SelectSeq(Tail(e.rows), LAMBDA r : r.ncells >= 4) IN
         [j \in 1..Len(sel) |-> sel[j].etage]

RECURSIVE EtagesOfAll(_)
\* The same for a sequence of elements, in document order.
EtagesOfAll(elems) ==
    IF elems = << >> THEN << >>
    ELSE EtagesOf(Head(elems)) \o EtagesOfAll(Tail(elems))

\* The floors of the details of a unit of the result.
UnitEtages(l) == [j \in 1..Len(l.details) |-> l.details[j].etage]

\* The detail rows that come after the first summary row.
EtagesAfterFirstUnit ==
    IF UnitPositions = {} THEN << >>
    ELSE LET first == CHOOSE p \in UnitPositions :
                          \A q \in UnitPositions : p <= q IN
         EtagesOfAll(SubSeq(d_doc.elems, first + 1, Len(d_doc.elems)))

\* Every detail row with at least 4 cells is, in document order, in the
\* details of the last unit, and the other units have no details; without
\* units the result is empty.
DetailsOnLastUnit ==
    LET out == d_out.logements
        n   == Cardinality(UnitPositions) IN
    /\ Len(out) = n
    /\ n > 0 => /\ UnitEtages(out[n]) = EtagesOfAll(d_doc.elems)
                /\ out[n].type =
                       d_doc.elems[CHOOSE p \in UnitPositions :
                                      \A q \in UnitPositions : q <= p].type
                /\ \A k \in 1..(n - 1) : out[k].details = << >>

\* C13 as stated: the above, and a detail row that comes before any
\* summary row is in no unit of the result.
C13_DetailsAsStated ==
    d_out.done =>
        /\ DetailsOnLastUnit
        /\ \A k \in 1..Len(d_out.logements) :
              Len(d_out.logements[k].details) <=
                  Len(EtagesAfterFirstUnit)

\* C13 as amended: every detail row with at least 4 cells is appended, in
\* document order, to the last unit of the summary pass, wherever it stands
\* in the document; detail rows are dropped only when there is no unit, and
\* the result is then empty.
C13_DetailsOnLastUnit == d_out.done => DetailsOnLastUnit

\* A detail table, then two summary rows, then a detail table: the second
\* unit has the details of both tables.
C13_Witness ==
    /\ d_out.done
    /\ d_doc.table
    /\ Len(d_doc.elems) = 3
    /\ d_doc.elems[1].kind = "dtable"
    /\ EtagesOf(d_doc.elems[1]) # << >>
    /\ d_doc.elems[2] = Row(5, "T1", "2")
    /\ d_doc.elems[3] = Row(5, "T2", "0")
    /\ Len(d_out.logements) = 2
    /\ d_out.logements[1].details = << >>
    /\ UnitEtages(d_out.logements[2]) = EtagesOf(d_doc.elems[1])

\* ------------------------------------------------------------------------
\* C14
\* ------------------------------------------------------------------------

\* The detail document of res had a unit row with a non-numeric nb_dispo.
HadNonNumericRow(res) ==
    \E k \in 1..Len(all_results) :
        /\ all_results[k][1] = res
        /\ \E j \in 1..Len(all_results[k][2]) :
              ~IsNumeric(all_results[k][2][j].nb_dispo)

\* C14: for a processed resource with a non-numeric unit row, the try
\* block did not raise, no zero-unit entry replaces its units, and its
\* transition, when due, is collected.
C14_NonNumericTolerated ==
    pc \in Running \cup {"done"} =>
        \A res \in Processed :
            HadNonNumericRow(res) =>
                /\ res.code \notin DOMAIN detail_exc
                /\ \A k \in 1..Len(all_results) :
                      all_results[k][1] = res => all_results[k][2] # << >>
                /\ Due(res) => Collected(res)

\* ------------------------------------------------------------------------
\* C15
\* ------------------------------------------------------------------------

CredentialsMissing == TELEGRAM_BOT_TOKEN = "" \/ TELEGRAM_CHAT_ID = ""

\* C15: in a run without the bot token or without the chat id no request
\* goes out, no exception leaves the notification step, and the run gets
\* past that step with the snapshot it saved still in the file.
C15_NoCredentialsNoRequest ==
    (pc \in Running \cup {"done", "aborted"} /\ CredentialsMissing) =>
        /\ requests = << >>
        /\ exc_cause # "notify"
        /\ sent # << >> =>
              /\ pc \in {"summary", "done"}
              /\ state_file = Dumped(RunStatuses)

\* A run with a token and without a chat id has ended: send_telegram was
\* called with a transition, nothing went out, the snapshot is in place.
C15_Witness ==
    /\ pc = "done"
    /\ TELEGRAM_BOT_TOKEN # ""
    /\ TELEGRAM_CHAT_ID = ""
    /\ Len(sent) = 1
    /\ requests = << >>
    /\ state_file = Dumped(RunStatuses)
    /\ summary # NoSummary

\* ------------------------------------------------------------------------
\* C16
\* ------------------------------------------------------------------------

\* C16: between any two detail fetches of a run lies a pacing sleep, and a
\* pacing sleep is only made for a resource of the scan result.
C16_PacedFetches ==
    pc \in Running \cup {"done"} =>
        /\ \A p, q \in 1..Len(log) :
              (p < q /\ log[p].ev = "fetch" /\ log[q].ev = "fetch") =>
                  \E r \in (p + 1)..(q - 1) : log[r].ev = "pace"
        /\ \A p \in 1..Len(log) :
              log[p].ev = "pace" => log[p].code \in available_codes

\* ------------------------------------------------------------------------
\* C17
\* ------------------------------------------------------------------------

\* C17: all_results holds one pair for each registry entry the loop has
\* processed, in registry order, and past the loop one for each entry.
C17_OneResultPerResource ==
    pc \in (Running \cup {"done"}) \ {"scan", "load"} =>
        /\ Len(all_results) = i - 1
        /\ \A k \in 1..Len(all_results) :
              k <= Len(RESIDENCES) /\ all_results[k][1] = RESIDENCES[k]
        /\ pc # "loop" => Len(all_results) = Len(RESIDENCES)

\* ------------------------------------------------------------------------
\* C18
\* ------------------------------------------------------------------------

\* C18: the final line reports the number of registry resources whose code
\* is in the scan result, out of the number of registry resources.
C18_SummaryCountsScan ==
    pc = "done" =>
        /\ summary.nb_dispo =
               Cardinality({k \in 1..Len(RESIDENCES) :
                               RESIDENCES[k].code \in available_codes})
        /\ summary.total = Len(RESIDENCES)

\* ------------------------------------------------------------------------
\* C19
\* ------------------------------------------------------------------------

\* C19: the file only changes in the two steps of save_state, which come
\* after the last registry entry; a run opens it for writing at most once,
\* and exactly once when it reaches its end; and as long as the run has
\* not opened it, also when the run was killed or has aborted, the file is
\* the one the run started with.
C19_OneWriteAfterLoop ==
    /\ [][state_file' # state_file =>
             /\ pc \in {"save_open", "save_dump"}
             /\ i > Len(RESIDENCES)]_vars
    /\ [](writes <= 1)
    /\ [](pc = "done" => writes = 1)
    /\ [](writes = 0 => state_file = file_at_start)

\* A run on the snapshot of an earlier run was killed after it had
\* processed a resource and before save_state: the file is as it was.
C19_Witness ==
    /\ pc = "killed"
    /\ writes = 0
    /\ detail_exc # EmptyDict
    /\ last_run.saved
    /\ state_file = Dumped(last_run.state)
    /\ state_file = file_at_start

\* ------------------------------------------------------------------------
\* C20
\* ------------------------------------------------------------------------

\* The base waits of backoff sleeps after each of the attempts 1..n.
SleepsAfterEach(n) == [j \in 1..n |-> 5 * j]

\* C20: a backoff sleep is only ever made after a connection-level failure
\* that is not the last attempt; when an attempt ends with an HTTP error or
\* another exception the call raises that error at that attempt, without a
\* further request and without a sleep after it; and when the last attempt
\* fails at connection level the call raises without a sleep after it.
C20_RetryOnlyConnectionErrors ==
    /\ f_st.sleeps = SleepsAfterEach(Len(f_st.sleeps))
    /\ Len(f_st.sleeps) <= max_attempts - 1
    /\ \A j \in 1..Len(f_st.sleeps) : f_outs[j] \in {"conn", "timeout"}
    /\ \A k \in 1..max_attempts :
          (/\ f_st.gets >= k
           /\ f_outs[k] \in {"http", "other"}) =>
              /\ f_st.status = "raised"
              /\ f_st.gets = k
              /\ f_st.error = [kind |-> f_outs[k], attempt |-> k]
              /\ Len(f_st.sleeps) = k - 1
    /\ (FetchEnded /\ f_st.gets = max_attempts) =>
          Len(f_st.sleeps) = max_attempts - 1

\* A connection error and then an HTTP error: the call has raised at the
\* second attempt after the one sleep that followed the first.
C20_Witness ==
    /\ f_outs[1] = "conn"
    /\ f_outs[2] = "http"
    /\ f_st.status = "raised"
    /\ f_st.error = [kind |-> "http", attempt |-> 2]
    /\ f_st.gets = 2
    /\ f_st.sleeps = << 5 >>

====
